---- MODULE Spec2Model ----
(***************************************************************************)
(* Model of the snapshot delta codec of libtw2 (snapshot/src/snap.rs):     *)
(* the Snap store and its Builder, the Delta engine (Delta::create,        *)
(* Snap::read_with_delta), and the wire codec for snaps and deltas.        *)
(*                                                                         *)
(* Words are i32 values with their real width; all arithmetic that can     *)
(* wrap is written so that no intermediate value leaves the i32 range.     *)
(* A HashMap / HashSet iteration order is an input of the operation that   *)
(* iterates (any permutation of the keys).                                 *)
(***************************************************************************)
EXTENDS Integers, Sequences, FiniteSets, TLC

VARIABLES
    phase,      \* position of the driver: "build_from", "build_to", "run"
    builder,    \* the Builder under construction (its snap)
    from,       \* the reference Snap (finished)
    to,         \* the new Snap (finished)
    target,     \* the Snap that read_with_delta / SnapReader::read fill
    delta,      \* the Delta object
    wire,       \* the ints last written by Snap::write / Delta::write
    warn,       \* the warnings the last operation sent to its sink, in order
    call,       \* the last operation called, with its arguments
    ret,        \* what the last operation returned ("panic": it aborted)
    chunks,     \* the DeltaChunks iterator, once delta_chunks has returned one
    yielded     \* the messages the iterator has yielded so far, in order

vars == <<phase, builder, from, to, target, delta, wire, warn, call, ret,
          chunks, yielded>>

(***************************************************************************)
(* i32 arithmetic                                                          *)
(***************************************************************************)
I32_MAX == 2147483647
I32_MIN == -I32_MAX - 1

\* i32::wrapping_add: a + b modulo 2^32, as a signed 32-bit value.
wrapping_add(a, b) ==
    IF b >= 0
    THEN IF a > I32_MAX - b
         THEN (a - I32_MAX - 1) + (b - I32_MAX - 1)
         ELSE a + b
    ELSE IF a < I32_MIN - b
         THEN (a + I32_MAX + 1) + (b + I32_MAX + 1)
         ELSE a + b

\* i32::wrapping_sub: a - b modulo 2^32 (-b does not exist for b = i32::MIN).
wrapping_sub(a, b) ==
    IF b = I32_MIN
    THEN wrapping_add(wrapping_add(a, I32_MAX), 1)
    ELSE wrapping_add(a, -b)

\* (a as u32) < (b as u32) for i32 a, b.
U32Less(a, b) ==
    IF (a >= 0) = (b >= 0) THEN a < b ELSE a >= 0

(***************************************************************************)
(* Keys (format::key, format::key_to_type_id, format::key_to_id)           *)
(***************************************************************************)
\* key(type_id, id) = ((type_id << 16) | id) as i32
key(type_id, id) ==
    IF type_id >= 32768
    THEN (type_id - 65536) * 65536 + id
    ELSE type_id * 65536 + id

key_to_type_id(k) == (k \div 65536) % 65536

key_to_id(k) == k % 65536

(***************************************************************************)
(* Helpers for slices, ranges and iteration orders                         *)
(***************************************************************************)
Zeros(n) == [i \in 1..n |-> 0]

\* ops::Range<u32> start..end over a Vec: 0-based, end exclusive.
Range(start, end) == [start |-> start, end |-> end]

\* &buf[to_usize(range)]
Slice(buf, r) == SubSeq(buf, r.start + 1, r.end)

\* buf[range].copy_from_slice(data), both of the same length
WriteSlice(buf, r, data) ==
    [i \in 1..Len(buf) |->
        IF i > r.start /\ i <= r.end THEN data[i - r.start] ELSE buf[i]]

\* Option<&[i32]>
None == [some |-> FALSE, data |-> <<>>]
Some(d) == [some |-> TRUE, data |-> d]

\* All the orders in which a hash collection with the elements S may iterate.
Orders(S) ==
    {o \in [1..Cardinality(S) -> S] : \A i, j \in 1..Cardinality(S) : i # j => o[i] # o[j]}

(***************************************************************************)
(* Snap                                                                    *)
(***************************************************************************)
MAX_SNAPSHOT_SIZE == 65536

\* Snap::empty / Default
EmptySnap == [offsets |-> <<>>, buf |-> <<>>]

Keys(snap) == DOMAIN snap.offsets

\* Snap::item
Snap_item(snap, type_id, id) ==
    IF key(type_id, id) \in Keys(snap)
    THEN Some(Slice(snap.buf, snap.offsets[key(type_id, id)]))
    ELSE None

\* The snap as a mapping from key to item data (what Snap::items yields).
SnapMap(snap) == [k \in Keys(snap) |-> Slice(snap.buf, snap.offsets[k])]

\* Snap::clear
Snap_clear(snap) == EmptySnap

\* Snap::prepare_item_vacant on the vacant entry for key k
prepare_item_vacant(offsets, buf, k, size) ==
    LET offset == Len(buf) IN
    IF offset + size > MAX_SNAPSHOT_SIZE
    THEN [err |-> "TooLongSnap", offsets |-> offsets, buf |-> buf,
          range |-> Range(0, 0)]
    ELSE [err |-> "Ok",
          offsets |-> offsets @@ (k :> Range(offset, offset + size)),
          buf |-> buf \o Zeros(size),
          range |-> Range(offset, offset + size)]

\* prepare_item that allocates a new range for a key the snap holds already
prepare_item_always_vacant(snap, type_id, id, size) ==
    LET k == key(type_id, id)
        v == prepare_item_vacant([x \in Keys(snap) \ {k} |-> snap.offsets[x]],
                                 snap.buf, k, size)
    IN  [err |-> v.err,
         snap |-> [offsets |-> v.offsets, buf |-> v.buf],
         range |-> v.range]

\* Snap::prepare_item: the entry's range, allocated when vacant
prepare_item(snap, type_id, id, size) ==
    LET k == key(type_id, id) IN
    IF k \in Keys(snap)
    THEN [err |-> "Ok", snap |-> snap, range |-> snap.offsets[k]]
    ELSE LET v == prepare_item_vacant(snap.offsets, snap.buf, k, size) IN
         [err |-> v.err,
          snap |-> [offsets |-> v.offsets, buf |-> v.buf],
          range |-> v.range]

\* Snap::crc: the fold of wrapping_add over s, from 0.  wrapping_add is
\* associative, and the fold is summed here by halves to keep the depth of
\* the evaluation at log2 of the length.
RECURSIVE WrappingSum(_)
WrappingSum(s) ==
    IF s = <<>> THEN 0
    ELSE IF Len(s) = 1 THEN wrapping_add(0, s[1])
    ELSE wrapping_add(WrappingSum(SubSeq(s, 1, Len(s) \div 2)),
                      WrappingSum(SubSeq(s, Len(s) \div 2 + 1, Len(s))))

Snap_crc(snap) == WrappingSum(snap.buf)

(***************************************************************************)
(* Builder                                                                 *)
(***************************************************************************)
\* add_item_raw that allocates before it looks for the key
add_item_raw_alloc_first(snap, type_id, id, size) ==
    LET k == key(type_id, id)
        v == prepare_item_vacant(snap.offsets, snap.buf, k, size)
    IN  IF k \in Keys(snap)
        THEN [err |-> "DuplicateKey",
              snap |-> [offsets |-> snap.offsets, buf |-> v.buf],
              range |-> Range(0, 0)]
        ELSE [err |-> v.err,
              snap |-> [offsets |-> v.offsets, buf |-> v.buf],
              range |-> v.range]

\* Builder::add_item_raw
add_item_raw(snap, type_id, id, size) ==
    LET k == key(type_id, id) IN
    IF k \in Keys(snap)
    THEN [err |-> "DuplicateKey", snap |-> snap, range |-> Range(0, 0)]
    ELSE LET v == prepare_item_vacant(snap.offsets, snap.buf, k, size) IN
         [err |-> v.err,
          snap |-> [offsets |-> v.offsets, buf |-> v.buf],
          range |-> v.range]

\* Builder::add_item
add_item(snap, type_id, id, data) ==
    LET r == add_item_raw(snap, type_id, id, Len(data)) IN
    IF r.err # "Ok"
    THEN [err |-> r.err, snap |-> r.snap]
    ELSE [err |-> "Ok",
          snap |-> [r.snap EXCEPT !.buf = WriteSlice(r.snap.buf, r.range, data)]]

(***************************************************************************)
(* Delta engine                                                            *)
(***************************************************************************)
\* i32::saturating_add
saturating_add(a, b) ==
    IF b >= 0
    THEN IF a > I32_MAX - b THEN I32_MAX ELSE a + b
    ELSE IF a < I32_MIN - b THEN I32_MIN ELSE a + b

\* apply_delta that adds without wrapping
apply_delta_saturating(in_, diff, out) ==
    IF Len(diff) # Len(out)
    THEN [err |-> "panic", out |-> out]
    ELSE IF in_.some
         THEN IF Len(in_.data) # Len(out)
              THEN [err |-> "DeltaDifferingSizes", out |-> out]
              ELSE [err |-> "Ok",
                    out |-> [i \in 1..Len(out) |-> saturating_add(in_.data[i], diff[i])]]
         ELSE [err |-> "Ok", out |-> diff]

\* apply_delta(in_, delta, out): the words written to out, or the failure
apply_delta(in_, diff, out) ==
    IF Len(diff) # Len(out)
    THEN [err |-> "panic", out |-> out]
    ELSE IF in_.some
         THEN IF Len(in_.data) # Len(out)
              THEN [err |-> "DeltaDifferingSizes", out |-> out]
              ELSE [err |-> "Ok",
                    out |-> [i \in 1..Len(out) |-> wrapping_add(in_.data[i], diff[i])]]
         ELSE [err |-> "Ok", out |-> diff]

\* create_delta(from, to, out): the words written to out, or the failure
create_delta(from_data, to_data, out) ==
    IF Len(to_data) # Len(out)
    THEN [err |-> "panic", out |-> out]
    ELSE IF from_data.some
         THEN IF Len(from_data.data) # Len(to_data)
              THEN [err |-> "panic", out |-> out]
              ELSE [err |-> "Ok",
                    out |-> [i \in 1..Len(out) |->
                                wrapping_sub(to_data[i], from_data.data[i])]]
         ELSE [err |-> "Ok", out |-> to_data]

\* Delta::new / Default, Delta::clear
EmptyDelta == [deleted_items |-> {}, updated_items |-> <<>>, buf |-> <<>>]

Delta_clear(d) == EmptyDelta

\* The delta's updated map, from key to diff words.
UpdatedMap(d) ==
    [k \in DOMAIN d.updated_items |-> Slice(d.buf, d.updated_items[k])]

\* Delta::prepare_update_item
prepare_update_item(d, type_id, id, size) ==
    LET k == key(type_id, id)
        offset == Len(d.buf)
    IN  IF k \in DOMAIN d.updated_items
        THEN [err |-> "panic", delta |-> d, range |-> Range(0, 0)]
        ELSE [err |-> "Ok",
              delta |-> [d EXCEPT !.buf = @ \o Zeros(size),
                                  !.updated_items =
                                      @ @@ (k :> Range(offset, offset + size))],
              range |-> Range(offset, offset + size)]

\* Delta::create, second loop: the items of `to` in the order toOrder
RECURSIVE create_updates(_, _, _, _)
create_updates(st, snapFrom, snapTo, toOrder) ==
    IF toOrder = <<>> \/ st.err # "Ok" THEN st
    ELSE LET k == Head(toOrder)
             type_id == key_to_type_id(k)
             id == key_to_id(k)
             data == Slice(snapTo.buf, snapTo.offsets[k])
             from_data == Snap_item(snapFrom, type_id, id)
             p == prepare_update_item(st.delta, type_id, id, Len(data))
             c == create_delta(from_data, data, Slice(p.delta.buf, p.range))
         IN IF p.err # "Ok" THEN [st EXCEPT !.err = p.err]
            ELSE IF c.err # "Ok" THEN [err |-> c.err, delta |-> p.delta]
            ELSE create_updates(
                    [err |-> "Ok",
                     delta |-> [p.delta EXCEPT
                                  !.buf = WriteSlice(@, p.range, c.out)]],
                    snapFrom, snapTo, Tail(toOrder))

\* Delta::create(from, to); toOrder is the order in which to.items() iterates
Delta_create(snapFrom, snapTo, toOrder) ==
    LET deleted == {k \in Keys(snapFrom) :
                      ~Snap_item(snapTo, key_to_type_id(k), key_to_id(k)).some}
    IN create_updates(
          [err |-> "Ok", delta |-> [EmptyDelta EXCEPT !.deleted_items = deleted]],
          snapFrom, snapTo, toOrder)

\* Snap::read_with_delta, first loop: the items of `from` in the order fromOrder
RECURSIVE rwd_carry(_, _, _, _)
rwd_carry(st, snapFrom, d, fromOrder) ==
    IF fromOrder = <<>> \/ st.err # "Ok" THEN st
    ELSE LET k == Head(fromOrder)
             data == Slice(snapFrom.buf, snapFrom.offsets[k])
             p == prepare_item(st.snap, key_to_type_id(k), key_to_id(k), Len(data))
         IN IF k \notin d.deleted_items
            THEN IF p.err # "Ok" THEN [st EXCEPT !.err = p.err]
                 ELSE IF p.range.end - p.range.start # Len(data)
                 THEN [st EXCEPT !.err = "panic", !.snap = p.snap]
                 ELSE rwd_carry(
                        [st EXCEPT !.snap = [p.snap EXCEPT
                                    !.buf = WriteSlice(@, p.range, data)]],
                        snapFrom, d, Tail(fromOrder))
            ELSE rwd_carry([st EXCEPT !.num_deletions = @ + 1],
                           snapFrom, d, Tail(fromOrder))

\* Snap::read_with_delta, second loop: delta.updated_items in the order updOrder
RECURSIVE rwd_update(_, _, _, _)
rwd_update(st, snapFrom, d, updOrder) ==
    IF updOrder = <<>> \/ st.err # "Ok" THEN st
    ELSE LET k == Head(updOrder)
             type_id == key_to_type_id(k)
             id == key_to_id(k)
             diff == Slice(d.buf, d.updated_items[k])
             p == prepare_item(st.snap, type_id, id, Len(diff))
             in_ == Snap_item(snapFrom, type_id, id)
             a == apply_delta(in_, diff, Slice(p.snap.buf, p.range))
         IN IF p.err # "Ok" THEN [st EXCEPT !.err = p.err]
            ELSE IF a.err # "Ok" THEN [st EXCEPT !.err = a.err, !.snap = p.snap]
            ELSE rwd_update(
                    [st EXCEPT !.snap = [p.snap EXCEPT
                                    !.buf = WriteSlice(@, p.range, a.out)]],
                    snapFrom, d, Tail(updOrder))

\* read_with_delta that gives up after an unknown delete
read_with_delta_strict(self, snapFrom, d, fromOrder, updOrder) ==
    LET c == rwd_carry([err |-> "Ok", snap |-> Snap_clear(self), num_deletions |-> 0],
                       snapFrom, d, fromOrder)
        u == rwd_update([err |-> "Ok", snap |-> c.snap], snapFrom, d, updOrder)
    IN  IF c.err # "Ok"
        THEN [err |-> c.err, snap |-> c.snap, warn |-> <<>>]
        ELSE IF c.num_deletions # Cardinality(d.deleted_items)
        THEN [err |-> "Ok", snap |-> c.snap, warn |-> <<"UnknownDelete">>]
        ELSE [err |-> u.err, snap |-> u.snap, warn |-> <<>>]

\* Snap::read_with_delta(self, warn, from, delta)
read_with_delta(self, snapFrom, d, fromOrder, updOrder) ==
    LET c == rwd_carry([err |-> "Ok", snap |-> Snap_clear(self), num_deletions |-> 0],
                       snapFrom, d, fromOrder)
        w == IF c.num_deletions # Cardinality(d.deleted_items)
             THEN <<"UnknownDelete">> ELSE <<>>
        u == rwd_update([err |-> "Ok", snap |-> c.snap], snapFrom, d, updOrder)
    IN  IF c.err # "Ok"
        THEN [err |-> c.err, snap |-> c.snap, warn |-> <<>>]
        ELSE [err |-> u.err, snap |-> u.snap, warn |-> w]

(***************************************************************************)
(* The int packer (packer::Packer, packer::Unpacker): a source and a sink  *)
(* of i32 values.  An Unpacker is the ints left to read; `bad`, when not   *)
(* 0, counts from the next int to the one whose bytes do not decode.       *)
(***************************************************************************)
Unpacker(ints, bad) == [rest |-> ints, bad |-> bad]

\* Unpacker::is_empty
is_empty(p) == p.rest = <<>>

\* Unpacker::read_int
read_int(p) ==
    IF p.rest = <<>>
    THEN [err |-> "UnexpectedEnd", v |-> 0, p |-> p]
    ELSE IF p.bad = 1
         THEN [err |-> "IntOutOfRange", v |-> 0, p |-> Unpacker(Tail(p.rest), 0)]
         ELSE [err |-> "Ok", v |-> Head(p.rest),
               p |-> Unpacker(Tail(p.rest), IF p.bad > 0 THEN p.bad - 1 ELSE 0)]

\* read_int_err: read_int with any packer error mapped to e
read_int_err(p, e) ==
    LET r == read_int(p) IN
    IF r.err # "Ok" THEN [r EXCEPT !.err = e] ELSE r

\* i32::try_u16 succeeds
fits_u16(v) == v >= 0 /\ v <= 65535

\* The caller's schema lookup object_size(type_id) -> Option<u32>: os holds
\* the fixed size of each type_id that has one.
object_size(os, type_id) ==
    IF type_id \in DOMAIN os
    THEN [some |-> TRUE, size |-> os[type_id]]
    ELSE [some |-> FALSE, size |-> 0]

(***************************************************************************)
(* Wire codec of a Delta                                                   *)
(***************************************************************************)
\* DeltaHeader / SnapHeader ::decode: two ints, in order; a packer error is
\* returned as it is (From<packer::UnexpectedEnd>, From<packer::IntOutOfRange>).
header_decode(p) ==
    LET a == read_int(p)
        b == read_int(a.p)
    IN  IF a.err # "Ok" THEN [err |-> a.err, first |-> 0, second |-> 0, p |-> a.p]
        ELSE IF b.err # "Ok" THEN [err |-> b.err, first |-> a.v, second |-> 0, p |-> b.p]
        ELSE [err |-> "Ok", first |-> a.v, second |-> b.v, p |-> b.p]

\* write_update that writes the size of every item, fixed or not
write_update_always_size(d, os, k) ==
    LET data == Slice(d.buf, d.updated_items[k]) IN
    [err |-> "Ok",
     out |-> <<key_to_type_id(k), key_to_id(k), Len(data)>> \o data]

\* Delta::write, the body of one update record
write_update(d, os, k) ==
    LET data == Slice(d.buf, d.updated_items[k])
        type_id == key_to_type_id(k)
        id == key_to_id(k)
        sz == object_size(os, type_id)
    IN  IF sz.some
        THEN IF sz.size # Len(data)
             THEN [err |-> "panic", out |-> <<type_id, id>>]
             ELSE [err |-> "Ok", out |-> <<type_id, id>> \o data]
        ELSE [err |-> "Ok", out |-> <<type_id, id, Len(data)>> \o data]

RECURSIVE write_updates(_, _, _, _)
write_updates(st, d, os, updOrder) ==
    IF updOrder = <<>> \/ st.err # "Ok" THEN st
    ELSE LET w == write_update(d, os, Head(updOrder)) IN
         write_updates([err |-> w.err, out |-> st.out \o w.out],
                       d, os, Tail(updOrder))

\* Delta::write(object_size, packer): the ints written, the deleted keys in the
\* order delOrder and the updates in the order updOrder
Delta_write(d, os, delOrder, updOrder) ==
    write_updates(
        [err |-> "Ok",
         out |-> <<Cardinality(d.deleted_items),
                   Cardinality(DOMAIN d.updated_items)>> \o delOrder],
        d, os, updOrder)

\* Delta::read, first loop: n deleted keys
RECURSIVE read_deleted(_, _)
read_deleted(st, n) ==
    IF n <= 0 \/ st.err # "Ok" THEN st
    ELSE LET r == read_int_err(st.p, "DeletedItemsUnpacking") IN
         IF r.err # "Ok" THEN [st EXCEPT !.err = r.err, !.p = r.p]
         ELSE read_deleted(
                 [st EXCEPT !.p = r.p,
                            !.delta.deleted_items = @ \cup {r.v}],
                 n - 1)

\* Delta::read, the n diff words of one update, pushed onto the buffer
RECURSIVE read_diff(_, _)
read_diff(st, n) ==
    IF n <= 0 \/ st.err # "Ok" THEN st
    ELSE LET r == read_int_err(st.p, "ItemDiffsUnpacking") IN
         IF r.err # "Ok" THEN [st EXCEPT !.err = r.err, !.p = r.p]
         ELSE read_diff([st EXCEPT !.p = r.p, !.delta.buf = Append(@, r.v)], n - 1)

\* read_update that keeps the earlier of two updates of one key
read_update_first_wins(st, os) ==
    LET t == read_int_err(st.p, "ItemDiffsUnpacking")
        i == read_int_err(t.p, "ItemDiffsUnpacking")
        sz == object_size(os, t.v)
        s == read_int_err(i.p, "ItemDiffsUnpacking")
        size == IF sz.some THEN sz.size ELSE s.v
        pAfter == IF sz.some THEN i.p ELSE s.p
        start == Len(st.delta.buf)
        k == key(t.v, i.v)
        w == read_diff([st EXCEPT !.p = pAfter], size)
    IN  IF t.err # "Ok" THEN [st EXCEPT !.err = t.err, !.p = t.p]
        ELSE IF i.err # "Ok" THEN [st EXCEPT !.err = i.err, !.p = i.p]
        ELSE IF ~fits_u16(t.v) THEN [st EXCEPT !.err = "TypeIdRange", !.p = i.p]
        ELSE IF ~fits_u16(i.v) THEN [st EXCEPT !.err = "IdRange", !.p = i.p]
        ELSE IF ~sz.some /\ s.err # "Ok" THEN [st EXCEPT !.err = s.err, !.p = s.p]
        ELSE IF ~sz.some /\ s.v < 0 THEN [st EXCEPT !.err = "NegativeSize", !.p = s.p]
        ELSE IF w.err # "Ok" THEN w
        ELSE [w EXCEPT
                !.delta.updated_items =
                    [x \in DOMAIN @ \cup {k} |->
                        IF x \in DOMAIN @ THEN @[x] ELSE Range(start, start + size)],
                !.warn = @ \o (IF k \in DOMAIN st.delta.updated_items
                               THEN <<"DuplicateUpdate">> ELSE <<>>)
                           \o (IF k \in st.delta.deleted_items
                               THEN <<"DeleteUpdate">> ELSE <<>>),
                !.num_updates = @ + 1]

\* Delta::read, one turn of the while loop: one update record
read_update(st, os) ==
    LET t == read_int_err(st.p, "ItemDiffsUnpacking")
        i == read_int_err(t.p, "ItemDiffsUnpacking")
        sz == object_size(os, t.v)
        s == read_int_err(i.p, "ItemDiffsUnpacking")
        size == IF sz.some THEN sz.size ELSE s.v
        pAfter == IF sz.some THEN i.p ELSE s.p
        start == Len(st.delta.buf)
        k == key(t.v, i.v)
        \* start + size fits u32 (no TooLongDiff): both are below 2^31 here
        w == read_diff([st EXCEPT !.p = pAfter], size)
    IN  IF t.err # "Ok" THEN [st EXCEPT !.err = t.err, !.p = t.p]
        ELSE IF i.err # "Ok" THEN [st EXCEPT !.err = i.err, !.p = i.p]
        ELSE IF ~fits_u16(t.v) THEN [st EXCEPT !.err = "TypeIdRange", !.p = i.p]
        ELSE IF ~fits_u16(i.v) THEN [st EXCEPT !.err = "IdRange", !.p = i.p]
        ELSE IF ~sz.some /\ s.err # "Ok" THEN [st EXCEPT !.err = s.err, !.p = s.p]
        ELSE IF ~sz.some /\ s.v < 0 THEN [st EXCEPT !.err = "NegativeSize", !.p = s.p]
        ELSE IF w.err # "Ok" THEN w
        ELSE [w EXCEPT
                !.delta.updated_items =
                    [x \in DOMAIN @ \cup {k} |->
                        IF x = k THEN Range(start, start + size) ELSE @[x]],
                !.warn = @ \o (IF k \in DOMAIN st.delta.updated_items
                               THEN <<"DuplicateUpdate">> ELSE <<>>)
                           \o (IF k \in st.delta.deleted_items
                               THEN <<"DeleteUpdate">> ELSE <<>>),
                !.num_updates = @ + 1]

RECURSIVE read_updates(_, _)
read_updates(st, os) ==
    IF is_empty(st.p) \/ st.err # "Ok" THEN st
    ELSE read_updates(read_update(st, os), os)

\* Delta::read(warn, object_size, p)
Delta_read(self, os, p) ==
    LET h == header_decode(p)
        st0 == [err |-> "Ok", delta |-> Delta_clear(self), p |-> h.p,
                warn |-> <<>>, num_updates |-> 0]
        dl == read_deleted(st0, h.first)
        st1 == IF h.first # Cardinality(dl.delta.deleted_items)
               THEN [dl EXCEPT !.warn = @ \o <<"DuplicateDelete">>]
               ELSE dl
        up == read_updates(st1, os)
    IN  IF h.err # "Ok" THEN [st0 EXCEPT !.err = h.err]
        ELSE IF dl.err # "Ok" THEN dl
        ELSE IF h.first < 0 THEN [dl EXCEPT !.err = "panic"]
        ELSE IF up.err # "Ok" THEN up
        ELSE IF up.num_updates # h.second
             THEN [up EXCEPT !.warn = @ \o <<"NumUpdatedItems">>]
             ELSE up

(***************************************************************************)
(* Wire codec of a Snap                                                    *)
(***************************************************************************)
\* The keys S sorted as signed numbers: negative keys first.
RECURSIVE SortKeys_signed(_)
SortKeys_signed(S) ==
    IF S = {} THEN <<>>
    ELSE LET m == CHOOSE x \in S : \A y \in S : x <= y IN
         <<m>> \o SortKeys_signed(S \ {m})

\* keys.sort_unstable_by_key(|&k| k as u32): the keys S in ascending u32 order
RECURSIVE SortKeys(_)
SortKeys(S) ==
    IF S = {} THEN <<>>
    ELSE LET m == CHOOSE x \in S : \A y \in S \ {x} : U32Less(x, y) IN
         <<m>> \o SortKeys(S \ {m})

\* Snap::write, first loop: the offsets of the items in the order keys
RECURSIVE write_offsets(_, _, _)
write_offsets(snap, keys, offset) ==
    IF keys = <<>> THEN <<>>
    ELSE LET r == snap.offsets[Head(keys)] IN
         <<offset>> \o write_offsets(snap, Tail(keys),
                                     offset + (r.end - r.start + 1) * 4)

\* Snap::write, second loop: each key and its words
RECURSIVE write_items(_, _)
write_items(snap, keys) ==
    IF keys = <<>> THEN <<>>
    ELSE <<Head(keys)>> \o Slice(snap.buf, snap.offsets[Head(keys)])
            \o write_items(snap, Tail(keys))

\* Snap::write with data_size = buf.len() * 4, the key words left out
Snap_write_no_key_words(snap) ==
    LET keys == SortKeys(Keys(snap)) IN
    <<Len(snap.buf) * 4, Cardinality(Keys(snap))>>
        \o write_offsets(snap, keys, 0) \o write_items(snap, keys)

\* Snap::write(buf, packer): the ints written
Snap_write(snap) ==
    LET keys == SortKeys(Keys(snap))
        data_size == (Len(snap.buf) + Cardinality(Keys(snap))) * 4
        num_items == Cardinality(Keys(snap))
    IN  <<data_size, num_items>>
            \o write_offsets(snap, keys, 0) \o write_items(snap, keys)

\* SnapReader::read, first loop: n offsets; st.prev is the Option prev_offset
RECURSIVE read_offsets(_, _)
read_offsets(st, n) ==
    IF n <= 0 \/ st.err # "Ok" THEN st
    ELSE LET r == read_int(st.p) IN
         IF r.err # "Ok" THEN [st EXCEPT !.err = "panic", !.p = r.p]
         ELSE IF st.prev.some /\ st.prev.v > r.v
              THEN [st EXCEPT !.err = "InvalidOffset", !.p = r.p]
         ELSE IF ~st.prev.some /\ r.v # 0
              THEN [st EXCEPT !.err = "InvalidOffset", !.p = r.p]
         ELSE read_offsets(
                [st EXCEPT !.p = r.p,
                           !.sizes = IF st.prev.some
                                     THEN Append(@, r.v - st.prev.v) ELSE @,
                           !.prev = [some |-> TRUE, v |-> r.v]],
                n - 1)

\* Builder::add_packed, the loop: n words read into the item at range r
RECURSIVE read_packed(_, _, _)
read_packed(st, r, n) ==
    IF n >= r.end - r.start \/ st.err # "Ok" THEN st
    ELSE LET w == read_int_err(st.p, "ItemsUnpacking") IN
         IF w.err # "Ok" THEN [st EXCEPT !.err = w.err, !.p = w.p]
         ELSE read_packed(
                [st EXCEPT !.p = w.p,
                           !.snap.buf = [@ EXCEPT ![r.start + n + 1] = w.v]],
                r, n + 1)

\* Builder::add_packed
add_packed(st, type_id, id, size) ==
    LET a == add_item_raw(st.snap, type_id, id, size) IN
    IF a.err # "Ok" THEN [st EXCEPT !.err = a.err]
    ELSE read_packed([st EXCEPT !.snap = a.snap], a.range, 0)

\* SnapReader::read, second loop: one item for each size
RECURSIVE read_items(_, _)
read_items(st, sizes) ==
    IF sizes = <<>> \/ st.err # "Ok" THEN st
    ELSE LET size == Head(sizes)
             k == read_int_err(st.p, "ItemsUnpacking")
         IN IF size % 4 # 0 THEN [st EXCEPT !.err = "InvalidOffset"]
            ELSE IF size = 0 THEN [st EXCEPT !.err = "InvalidOffset"]
            ELSE IF k.err # "Ok" THEN [st EXCEPT !.err = k.err, !.p = k.p]
            ELSE IF size < 0 THEN [st EXCEPT !.err = "panic", !.p = k.p]
            ELSE read_items(
                    add_packed([st EXCEPT !.p = k.p],
                               key_to_type_id(k.v), key_to_id(k.v),
                               (size \div 4) - 1),
                    Tail(sizes))

\* A reader that recycles the passed-in snap before it reads the offsets.
SnapReader_read_recycle_first(snap, p) ==
    LET h == header_decode(p)
        data_size == h.first
        num_items == h.second
        o == read_offsets([err |-> "Ok", p |-> h.p, sizes |-> <<>>,
                           prev |-> [some |-> FALSE, v |-> 0]], num_items)
        sizes == IF o.prev.some THEN Append(o.sizes, data_size - o.prev.v)
                 ELSE o.sizes
        it == read_items([err |-> "Ok", p |-> o.p, snap |-> Snap_clear(snap)], sizes)
    IN  IF h.err # "Ok"
        THEN [err |-> h.err, snap |-> snap, p |-> h.p, recycled |-> FALSE]
        ELSE IF o.err # "Ok"
        THEN [err |-> o.err, snap |-> Snap_clear(snap), p |-> o.p, recycled |-> TRUE]
        ELSE IF o.prev.some /\ o.prev.v > data_size
        THEN [err |-> "InvalidOffset", snap |-> Snap_clear(snap), p |-> o.p,
              recycled |-> TRUE]
        ELSE IF it.err # "Ok"
        THEN [err |-> it.err, snap |-> it.snap, p |-> it.p, recycled |-> TRUE]
        ELSE IF ~is_empty(it.p)
        THEN [err |-> "panic", snap |-> it.snap, p |-> it.p, recycled |-> TRUE]
        ELSE [err |-> "Ok", snap |-> it.snap, p |-> it.p, recycled |-> TRUE]

\* SnapReader::read(warn, snap, p).  `snap` is the passed-in Snap as the call
\* leaves it, `recycled` whether snap.recycle() was reached.
SnapReader_read(snap, p) ==
    LET h == header_decode(p)
        data_size == h.first
        num_items == h.second
        o == read_offsets([err |-> "Ok", p |-> h.p, sizes |-> <<>>,
                           prev |-> [some |-> FALSE, v |-> 0]], num_items)
        sizes == IF o.prev.some THEN Append(o.sizes, data_size - o.prev.v)
                 ELSE o.sizes
        it == read_items([err |-> "Ok", p |-> o.p, snap |-> Snap_clear(snap)], sizes)
    IN  IF h.err # "Ok"
        THEN [err |-> h.err, snap |-> snap, p |-> h.p, recycled |-> FALSE]
        ELSE IF o.err # "Ok"
        THEN [err |-> o.err, snap |-> snap, p |-> o.p, recycled |-> FALSE]
        ELSE IF o.prev.some /\ o.prev.v > data_size
        THEN [err |-> "InvalidOffset", snap |-> snap, p |-> o.p, recycled |-> FALSE]
        ELSE IF it.err # "Ok"
        THEN [err |-> it.err, snap |-> it.snap, p |-> it.p, recycled |-> TRUE]
        ELSE IF ~is_empty(it.p)
        THEN [err |-> "panic", snap |-> it.snap, p |-> it.p, recycled |-> TRUE]
        ELSE [err |-> "Ok", snap |-> it.snap, p |-> it.p, recycled |-> TRUE]

(***************************************************************************)
(* delta_chunks and the DeltaChunks iterator                               *)
(***************************************************************************)
\* gamenet::enums::MAX_SNAPSHOT_PACKSIZE
MAX_SNAPSHOT_PACKSIZE == 900

\* No iterator has been made, or delta_chunks aborted.
NoChunks == [some |-> FALSE]

\* a - b leaves the i32 range
sub_overflows(a, b) ==
    \/ b > 0 /\ a < I32_MIN + b
    \/ b < 0 /\ a > I32_MAX + b

\* delta_chunks with the part count rounded down
delta_chunks_floor(tick, delta_tick, data, crc) ==
    [some |-> TRUE,
     tick |-> tick,
     delta_tick |-> wrapping_sub(tick, delta_tick),
     crc |-> crc,
     cur_part |-> IF data # <<>> THEN 0 ELSE -1,
     num_parts |-> Len(data) \div MAX_SNAPSHOT_PACKSIZE,
     data |-> data]

\* delta_chunks(tick, delta_tick, data, crc), where tick - delta_tick does not
\* abort
delta_chunks(tick, delta_tick, data, crc) ==
    [some |-> TRUE,
     tick |-> tick,
     delta_tick |-> wrapping_sub(tick, delta_tick),
     crc |-> crc,
     cur_part |-> IF data # <<>> THEN 0 ELSE -1,
     num_parts |-> (Len(data) + MAX_SNAPSHOT_PACKSIZE - 1) \div MAX_SNAPSHOT_PACKSIZE,
     data |-> data]

\* DeltaChunks::next: what it returns (Option<SnapMsg>) and the iterator after
DeltaChunks_next(self) ==
    IF self.cur_part = self.num_parts
    THEN [ret |-> [some |-> FALSE], self |-> self]
    ELSE LET result ==
                IF self.num_parts = 0
                THEN [kind |-> "SnapEmpty", tick |-> self.tick,
                      delta_tick |-> self.delta_tick]
                ELSE IF self.num_parts = 1
                THEN [kind |-> "SnapSingle", tick |-> self.tick,
                      delta_tick |-> self.delta_tick, crc |-> self.crc,
                      data |-> self.data]
                ELSE LET index == self.cur_part
                         start == MAX_SNAPSHOT_PACKSIZE * index
                         end == IF MAX_SNAPSHOT_PACKSIZE * (index + 1) < Len(self.data)
                                THEN MAX_SNAPSHOT_PACKSIZE * (index + 1)
                                ELSE Len(self.data)
                     IN  [kind |-> "Snap", tick |-> self.tick,
                          delta_tick |-> self.delta_tick,
                          num_parts |-> self.num_parts, part |-> self.cur_part,
                          crc |-> self.crc,
                          data |-> SubSeq(self.data, start + 1, end)]
         IN  [ret |-> [some |-> TRUE, msg |-> result],
              self |-> [self EXCEPT !.cur_part = @ + 1]]

(***************************************************************************)
(* Inputs of the operations, and the bounds of the model                   *)
(***************************************************************************)
\* The most words an item is given.
MaxLen == 2

\* (type_id, id) pairs of the items; one type_id is >= 0x8000.
ItemIds == {<<1, 1>>, <<32768, 2>>}

\* Item data: empty, one word at each end of the i32 range, longer ones.
DataSet ==
    {d \in {<<>>, <<I32_MAX>>, <<I32_MIN>>, <<5, -3>>, <<I32_MIN, 0, 7>>} :
        Len(d) <= MaxLen}

(***************************************************************************)
(* Operations of the driver: building the two snaps, then the delta engine *)
(***************************************************************************)
Init ==
    /\ phase = "build_from"
    /\ builder = EmptySnap
    /\ from = EmptySnap
    /\ to = EmptySnap
    /\ target = EmptySnap
    /\ delta = EmptyDelta
    /\ wire = <<>>
    /\ warn = <<>>
    /\ call = [op |-> "new"]
    /\ ret = "Ok"
    /\ chunks = NoChunks
    /\ yielded = <<>>

\* builder.add_item(type_id, id, data)
AddItem(type_id, id, data) ==
    /\ phase \in {"build_from", "build_to"}
    /\ LET r == add_item(builder, type_id, id, data) IN
        /\ builder' = r.snap
        /\ ret' = r.err
    /\ call' = [op |-> "add_item", type_id |-> type_id, id |-> id, data |-> data]
    /\ warn' = <<>>
    /\ UNCHANGED <<chunks, yielded, phase, from, to, target, delta, wire>>

\* from = builder.finish(); a new Builder follows
FinishFrom ==
    /\ phase = "build_from"
    /\ from' = builder
    /\ builder' = EmptySnap
    /\ phase' = "build_to"
    /\ call' = [op |-> "finish"]
    /\ ret' = "Ok"
    /\ warn' = <<>>
    /\ UNCHANGED <<chunks, yielded, to, target, delta, wire>>

\* to = builder.finish()
FinishTo ==
    /\ phase = "build_to"
    /\ to' = builder
    /\ builder' = EmptySnap
    /\ phase' = "run"
    /\ call' = [op |-> "finish"]
    /\ ret' = "Ok"
    /\ warn' = <<>>
    /\ UNCHANGED <<chunks, yielded, from, target, delta, wire>>

\* delta.create(&from, &to)
Create ==
    /\ phase = "run"
    /\ \E toOrder \in Orders(Keys(to)) :
        LET r == Delta_create(from, to, toOrder) IN
        /\ delta' = r.delta
        /\ ret' = r.err
    /\ call' = [op |-> "create"]
    /\ warn' = <<>>
    /\ UNCHANGED <<chunks, yielded, phase, builder, from, to, target, wire>>

\* target.read_with_delta(warn, &from, &delta)
ReadWithDelta ==
    /\ phase = "run"
    /\ \E fromOrder \in Orders(Keys(from)), updOrder \in Orders(DOMAIN delta.updated_items) :
        LET r == read_with_delta(target, from, delta, fromOrder, updOrder) IN
        /\ target' = r.snap
        /\ ret' = r.err
        /\ warn' = r.warn
    /\ call' = [op |-> "read_with_delta", after |-> call.op]
    /\ UNCHANGED <<chunks, yielded, phase, builder, from, to, delta, wire>>

Next ==
    \/ \E ti \in ItemIds, data \in DataSet : AddItem(ti[1], ti[2], data)
    \/ FinishFrom
    \/ FinishTo
    \/ Create
    \/ ReadWithDelta

Spec == Init /\ [][Next]_vars

(***************************************************************************)
(* Deltas from the network: Delta::read, Delta::write                      *)
(***************************************************************************)
\* Schemas: no type has a fixed size; type 1 has 1 word and type 32768 has 2.
NoSchema == <<>>
Schema == (1 :> 1) @@ (32768 :> 2)
OsSet == {NoSchema, Schema}

\* Diff words of an update record.
Diffs ==
    {d \in {<<>>, <<1>>, <<2, -2>>, <<0, 0, 1>>} : Len(d) <= MaxLen}

\* Update records a peer may send with diffs from D, and lists of at most two.
Recs(D) == {[type_id |-> ti[1], id |-> ti[2], diff |-> d] : ti \in ItemIds, d \in D}
RecSeqs(D) ==
    {<<>>} \cup {<<r>> : r \in Recs(D)} \cup {<<r1, r2>> : r1, r2 \in Recs(D)}

\* Lists of deleted keys a peer may send; one names a key twice.
ItemKeys == {key(ti[1], ti[2]) : ti \in ItemIds}
DelSeqs ==
    {<<>>} \cup {<<k>> : k \in ItemKeys}
           \cup {<<k1, k2>> : k1 \in {key(1, 1)}, k2 \in ItemKeys}

\* The ints of the update records recs as a peer with the schema os packs them.
RECURSIVE EncodeRecs(_, _)
EncodeRecs(recs, os) ==
    IF recs = <<>> THEN <<>>
    ELSE LET r == Head(recs) IN
         <<r.type_id, r.id>>
            \o (IF object_size(os, r.type_id).some THEN <<>> ELSE <<Len(r.diff)>>)
            \o r.diff
            \o EncodeRecs(Tail(recs), os)

\* The ints of a delta with the deleted keys dels and the update records recs.
DeltaStream(dels, recs, os) ==
    <<Len(dels), Len(recs)>> \o dels \o EncodeRecs(recs, os)

\* delta.read(warn, object_size, p) on a packet from the network
DeltaReadNet(dels, recs, enc, os) ==
    /\ LET r == Delta_read(delta, os, Unpacker(DeltaStream(dels, recs, enc), 0)) IN
        /\ delta' = r.delta
        /\ ret' = r.err
        /\ warn' = r.warn
    /\ call' = [op |-> "Delta::read", src |-> "net", os |-> os, enc |-> enc,
                dels |-> dels, recs |-> recs]
    /\ UNCHANGED <<chunks, yielded, phase, builder, from, to, target, wire>>

\* delta.write(object_size, packer)
DeltaWrite(os) ==
    /\ \E delOrder \in Orders(delta.deleted_items),
          updOrder \in Orders(DOMAIN delta.updated_items) :
        LET r == Delta_write(delta, os, delOrder, updOrder) IN
        /\ wire' = r.out
        /\ ret' = r.err
    /\ call' = [op |-> "Delta::write", os |-> os]
    /\ warn' = <<>>
    /\ UNCHANGED <<chunks, yielded, phase, builder, from, to, target, delta>>

\* delta.read(warn, object_size, p) on the ints last written
DeltaReadWire(os) ==
    /\ LET r == Delta_read(delta, os, Unpacker(wire, 0)) IN
        /\ delta' = r.delta
        /\ ret' = r.err
        /\ warn' = r.warn
    /\ call' = [op |-> "Delta::read", src |-> "wire", os |-> os,
                after |-> call.op,
                after_os |-> IF call.op = "Delta::write" THEN call.os ELSE NoSchema,
                after_ret |-> ret]
    /\ UNCHANGED <<chunks, yielded, phase, builder, from, to, target, wire>>

\* A reference snap is built, a delta arrives from the network into a new
\* Delta and is applied.
NextApply ==
    \/ /\ phase = "build_from"
       /\ \E ti \in ItemIds, data \in DataSet \ {<<I32_MIN>>} :
            AddItem(ti[1], ti[2], data)
    \/ FinishFrom
    \/ FinishTo
    \/ /\ phase = "run"
       /\ delta = EmptyDelta
       /\ \E dels \in {d \in DelSeqs : Len(d) = Cardinality({d[i] : i \in DOMAIN d})},
             recs \in RecSeqs(Diffs) :
            DeltaReadNet(dels, recs, NoSchema, NoSchema)
    \/ /\ phase = "run"
       /\ ReadWithDelta

SpecApply == Init /\ [][NextApply]_vars

\* A delta arrives from the network into a new Delta, is written again and
\* read back.
NextDeltaWire ==
    \/ /\ delta = EmptyDelta
       /\ wire = <<>>
       /\ \E dels \in DelSeqs, recs \in RecSeqs(Diffs \cup {<<I32_MIN>>}), os \in OsSet :
            DeltaReadNet(dels, recs, os, os)
    \/ /\ call.op = "Delta::read"
       /\ call.src = "net"
       /\ ret = "Ok"
       /\ \E os \in OsSet : DeltaWrite(os)
    \/ /\ call.op = "Delta::write"
       /\ ret = "Ok"
       /\ \E os \in OsSet : DeltaReadWire(os)

SpecDeltaWire == Init /\ [][NextDeltaWire]_vars

(***************************************************************************)
(* Snaps on the wire: Snap::write, SnapReader::read                        *)
(***************************************************************************)
\* Offsets tables a peer may send: good ones, and ones that do not start at
\* 0, that decrease, or that hold sizes of 0 or of 2 bytes.
OffsetSeqs ==
    {<<>>} \cup {<<a>> : a \in {0, 4}}
           \cup {<<a, b>> : a \in {0, 4}, b \in {0, 4, 6, 8}}
           \cup {<<0, 8, 4>>, <<0, 4, 8>>}

\* data_size values a peer may send.
DataSizes == {0, 4, 6, 8, 12}

\* Item regions a peer may send.
ItemRegions ==
    {<<>>, <<key(1, 1)>>, <<key(1, 1), key(32768, 2)>>, <<key(1, 1), 7, key(32768, 2)>>,
     <<key(1, 1), key(1, 1)>>}

\* The ints of a snap packet: the header, the offsets and the items; `more`
\* is by how much num_items exceeds the offsets sent.
SnapStream(data_size, more, offsets, items) ==
    <<data_size, Len(offsets) + more>> \o offsets \o items

\* snap.write(buf, packer) for the snap `from`
SnapWrite ==
    /\ wire' = Snap_write(from)
    /\ call' = [op |-> "Snap::write"]
    /\ ret' = "Ok"
    /\ warn' = <<>>
    /\ UNCHANGED <<chunks, yielded, phase, builder, from, to, target, delta>>

\* target = reader.read(warn, target, p) on the ints p, of which the bad-th
\* does not decode (bad = 0: all do).  On an error the passed-in snap is
\* dropped by the call; target then shows it as the call left it.
SnapRead(src, ints, bad) ==
    /\ LET r == SnapReader_read(target, Unpacker(ints, bad)) IN
        /\ target' = r.snap
        /\ ret' = r.err
        /\ call' = [op |-> "SnapReader::read", src |-> src, ints |-> ints,
                    bad |-> bad, left |-> Len(r.p.rest), recycled |-> r.recycled]
    /\ warn' = <<>>
    /\ UNCHANGED <<chunks, yielded, phase, builder, from, to, delta, wire>>

\* A snap is built, written and read back; or snap packets arrive from the
\* network, one after the other for as long as they are read with Ok.
NextSnapWire ==
    \/ /\ phase = "build_from"
       /\ call.op \in {"new", "add_item"}
       /\ \E ti \in ItemIds, data \in DataSet : AddItem(ti[1], ti[2], data)
    \/ /\ call.op \in {"new", "add_item"}
       /\ FinishFrom
    \/ /\ call.op = "finish"
       /\ SnapWrite
    \/ /\ call.op = "Snap::write"
       /\ SnapRead("wire", wire, 0)
    \/ /\ call.op \in {"new", "SnapReader::read"}
       /\ phase = "build_from"
       /\ ret = "Ok"
       /\ \E ds \in DataSizes, more \in {0, 1}, offs \in OffsetSeqs, items \in ItemRegions :
            SnapRead("net", SnapStream(ds, more, offs, items), 0)
    \/ /\ call.op \in {"new", "SnapReader::read"}
       /\ phase = "build_from"
       /\ ret = "Ok"
       /\ \E offs \in OffsetSeqs, bad \in 1..4 :
            SnapRead("net", SnapStream(8, 0, offs, <<key(1, 1), 7>>), bad)

SpecSnapWire == Init /\ [][NextSnapWire]_vars

(***************************************************************************)
(* Snaps over their whole life: built, finished, patched, recycled         *)
(***************************************************************************)
\* builder = target.recycle(): the snap is cleared and built anew as `to`;
\* the driver drops the old `to` and the delta with it.
Recycle ==
    /\ phase = "run"
    /\ builder' = Snap_clear(target)
    /\ target' = EmptySnap
    /\ to' = EmptySnap
    /\ delta' = EmptyDelta
    /\ phase' = "build_to"
    /\ call' = [op |-> "recycle"]
    /\ ret' = "Ok"
    /\ warn' = <<>>
    /\ UNCHANGED <<chunks, yielded, from, wire>>

\* Snaps are built with add_item calls that succeed and that fail (one item
\* fills the whole buffer, so that the next gets TooLongSnap), finished,
\* patched with deltas made by Delta::create or read from the network, and
\* recycled after a read_with_delta that returned Ok.
NextLife ==
    \/ \E ti \in ItemIds, data \in DataSet : AddItem(ti[1], ti[2], data)
    \/ /\ phase = "build_from"
       /\ builder = EmptySnap
       /\ AddItem(1, 1, Zeros(MAX_SNAPSHOT_SIZE))
    \/ /\ Len(builder.buf) < MAX_SNAPSHOT_SIZE
       /\ FinishFrom
    \/ FinishTo
    \/ Create
    \/ /\ phase = "run"
       /\ to = EmptySnap
       /\ delta = EmptyDelta
       /\ \E dels \in {d \in DelSeqs : Len(d) = Cardinality({d[i] : i \in DOMAIN d})},
             recs \in RecSeqs(Diffs) :
            DeltaReadNet(dels, recs, NoSchema, NoSchema)
    \/ ReadWithDelta
    \/ /\ call.op = "read_with_delta"
       /\ ret = "Ok"
       /\ Recycle

SpecLife == Init /\ [][NextLife]_vars

(***************************************************************************)
(* Chunking: delta_chunks, then next() again and again                     *)
(***************************************************************************)
\* n bytes that differ from place to place
Bytes(n, seed) == [i \in 1..n |-> (i * seed) % 256]

\* Data lengths around one and two packets.
ChunkData ==
    {Bytes(n, seed) : n \in {0, 1, 899, 900, 901, 1800, 1801}, seed \in {1, 7}}

\* chunks = delta_chunks(tick, delta_tick, data, crc).  When tick - delta_tick
\* overflows, a build with overflow checks aborts and one without wraps.
DeltaChunksNew(tick, delta_tick, data, crc, checked) ==
    /\ IF checked /\ sub_overflows(tick, delta_tick)
       THEN chunks' = NoChunks /\ ret' = "panic"
       ELSE chunks' = delta_chunks(tick, delta_tick, data, crc) /\ ret' = "Ok"
    /\ yielded' = <<>>
    /\ call' = [op |-> "delta_chunks", tick |-> tick, delta_tick |-> delta_tick,
                data |-> data, crc |-> crc]
    /\ warn' = <<>>
    /\ UNCHANGED <<phase, builder, from, to, target, delta, wire>>

\* chunks.next()
ChunksNext ==
    /\ chunks.some
    /\ LET r == DeltaChunks_next(chunks) IN
        /\ chunks' = r.self
        /\ yielded' = IF r.ret.some THEN Append(yielded, r.ret.msg) ELSE yielded
        /\ ret' = IF r.ret.some THEN "Some" ELSE "None"
    /\ call' = [call EXCEPT !.op = "DeltaChunks::next"]
    /\ warn' = <<>>
    /\ UNCHANGED <<phase, builder, from, to, target, delta, wire>>

NextChunks ==
    \/ /\ call.op = "new"
       /\ \E tk \in {<<10, 3>>, <<I32_MIN, 1>>}, data \in ChunkData, crc \in {0, -1},
             checked \in BOOLEAN :
            DeltaChunksNew(tk[1], tk[2], data, crc, checked)
    \/ ChunksNext

SpecChunks == Init /\ [][NextChunks]_vars

(***************************************************************************)
(* The size cap: a Builder given items of thousands of words               *)
(***************************************************************************)
\* Item lengths around a quarter of MAX_SNAPSHOT_SIZE and around the whole.
CapSizes == {16384, 16385, 49152}

NextCap ==
    \E ti \in ItemIds, n \in CapSizes : AddItem(ti[1], ti[2], Zeros(n))

SpecCap == Init /\ [][NextCap]_vars

(***************************************************************************)
(* Claims                                                                  *)
(***************************************************************************)
\* Every key of both snaps has the same data length in both.
SizesMatch(a, b) ==
    \A k \in Keys(a) \cap Keys(b) : Len(SnapMap(a)[k]) = Len(SnapMap(b)[k])

\* C1: when `from` and `to` agree on the data length of every shared key,
\* Delta::create(from, to) followed by read_with_delta(from, that delta)
\* returns Ok, warns of nothing and leaves the target equal to `to` as a
\* mapping from key to data, whatever the target held before and with
\* wrapping differences.
C1_CreateThenApplyGivesTo ==
    (call.op = "read_with_delta" /\ call.after = "create" /\ SizesMatch(from, to))
        => (ret = "Ok" /\ warn = <<>> /\ SnapMap(target) = SnapMap(to))

\* A wrapping case of C1: an item goes from i32::MAX to i32::MIN by a diff of 1,
\* another item of `from` is deleted, and the target is rebuilt as `to`.
C1_Witness ==
    /\ call.op = "read_with_delta" /\ call.after = "create" /\ ret = "Ok"
    /\ \E k \in Keys(from) \cap Keys(to) :
        /\ SnapMap(from)[k] = <<I32_MAX>>
        /\ SnapMap(to)[k] = <<I32_MIN>>
        /\ UpdatedMap(delta)[k] = <<1>>
        /\ SnapMap(target)[k] = <<I32_MIN>>
    /\ delta.deleted_items # {}

\* C5 (as claimed): an add_item with a new key returns TooLongSnap exactly
\* when the words stored so far plus the item's words exceed
\* MAX_SNAPSHOT_SIZE / 4, and then leaves the builder's snap as it was.
C5_TooLongSnapAtQuarter ==
    [][(call'.op = "add_item" /\ key(call'.type_id, call'.id) \notin Keys(builder))
        => /\ (ret' = "TooLongSnap") =
                (Len(builder.buf) + Len(call'.data) > MAX_SNAPSHOT_SIZE \div 4)
           /\ ret' = "TooLongSnap" => builder' = builder]_vars

\* C6: add_item with a key the builder already holds returns DuplicateKey and
\* leaves the key set, every item's data and the buffer length as they were.
C6_DuplicateKeyLeavesSnap ==
    [][(call'.op = "add_item" /\ key(call'.type_id, call'.id) \in Keys(builder))
        => /\ ret' = "DuplicateKey"
           /\ Keys(builder') = Keys(builder)
           /\ SnapMap(builder') = SnapMap(builder)
           /\ Len(builder'.buf) = Len(builder.buf)]_vars

\* A duplicate add_item whose data differs in length from the stored item.
C6_Witness ==
    /\ call.op = "add_item" /\ ret = "DuplicateKey"
    /\ key(call.type_id, call.id) \in Keys(builder)
    /\ Len(call.data) # Len(SnapMap(builder)[key(call.type_id, call.id)])
    /\ Cardinality(Keys(builder)) = 2

\* The lookup os gives every updated item of d a fixed size, its diff length.
FixedFor(os, d) ==
    \A k \in DOMAIN d.updated_items :
        /\ key_to_type_id(k) \in DOMAIN os
        /\ os[key_to_type_id(k)] = Len(UpdatedMap(d)[k])

\* The step reads back, with the lookup it was written with, a delta that
\* the lookup fits.
RoundTripStep ==
    /\ call'.op = "Delta::read" /\ call'.src = "wire"
    /\ call.op = "Delta::write"
    /\ call'.os = call.os
    /\ FixedFor(call.os, delta)

\* C3 (as claimed): Delta::write then Delta::read with the same fixed-size
\* lookup returns Ok, warns of nothing and yields the same deleted set and
\* the same updated map.
C3_RoundTripNoWarning ==
    [][RoundTripStep
        => /\ ret' = "Ok"
           /\ warn' = <<>>
           /\ delta'.deleted_items = delta.deleted_items
           /\ UpdatedMap(delta') = UpdatedMap(delta)]_vars

\* C3 (amended): as above, but the read warns DeleteUpdate once for every
\* key that is both deleted and updated, and of nothing else; it warns of
\* nothing when the two key sets are disjoint.
C3_RoundTripDeleteUpdateOnly ==
    [][RoundTripStep
        => /\ ret' = "Ok"
           /\ \A i \in DOMAIN warn' : warn'[i] = "DeleteUpdate"
           /\ Len(warn') =
                Cardinality(delta.deleted_items \cap DOMAIN delta.updated_items)
           /\ delta'.deleted_items = delta.deleted_items
           /\ UpdatedMap(delta') = UpdatedMap(delta)]_vars

\* A delta with a deleted key and two updated ones has been written and read
\* back with the schema that fixes the size of both types.
C3_Witness ==
    /\ call.op = "Delta::read" /\ call.src = "wire"
    /\ call.after = "Delta::write" /\ call.after_os = Schema /\ call.os = Schema
    /\ ret = "Ok" /\ warn = <<>>
    /\ delta.deleted_items # {}
    /\ Cardinality(DOMAIN delta.updated_items) = 2
    /\ FixedFor(Schema, delta)

\* Some item of `from` is updated by a diff of another length.
SizeMismatch(snap, d) ==
    \E k \in DOMAIN d.updated_items \cap Keys(snap) :
        Len(UpdatedMap(d)[k]) # Len(SnapMap(snap)[k])

\* C4 (as claimed): read_with_delta returns Err(DeltaDifferingSizes) whenever
\* the delta updates an item of `from` with a diff of another length, be the
\* key deleted as well or not; it does not abort.
C4_DifferingSizesIsReturned ==
    (call.op = "read_with_delta" /\ SizeMismatch(from, delta))
        => ret = "DeltaDifferingSizes"

\* C7: a well-formed stream whose two update records have the same key and
\* different diffs is read with Ok, the updated map holds the later diff for
\* the key, and the sink receives exactly one DuplicateUpdate.
C7_LaterUpdateWins ==
    (/\ call.op = "Delta::read" /\ call.src = "net"
     /\ Len(call.recs) = 2
     /\ call.recs[1].type_id = call.recs[2].type_id
     /\ call.recs[1].id = call.recs[2].id
     /\ call.recs[1].diff # call.recs[2].diff
     /\ \A i \in 1..2 : call.recs[i].type_id \in DOMAIN call.os
            => call.os[call.recs[i].type_id] = Len(call.recs[i].diff))
        => /\ ret = "Ok"
           /\ UpdatedMap(delta)[key(call.recs[2].type_id, call.recs[2].id)]
                = call.recs[2].diff
           /\ Cardinality({i \in DOMAIN warn : warn[i] = "DuplicateUpdate"}) = 1

\* Such a stream, with diffs of different lengths, has been read.
C7_Witness ==
    /\ call.op = "Delta::read" /\ call.src = "net" /\ ret = "Ok"
    /\ Len(call.recs) = 2
    /\ call.recs[1].type_id = call.recs[2].type_id
    /\ call.recs[1].id = call.recs[2].id
    /\ Len(call.recs[1].diff) > Len(call.recs[2].diff)
    /\ "DuplicateUpdate" \in {warn[i] : i \in DOMAIN warn}
    /\ DOMAIN delta.updated_items = {key(call.recs[2].type_id, call.recs[2].id)}

\* What read_with_delta is to build: the items of `snap` that d does not
\* delete, and every update of d applied.
Applied(snap, d) ==
    [k \in (Keys(snap) \ d.deleted_items) \cup DOMAIN d.updated_items |->
        IF k \in DOMAIN d.updated_items
        THEN IF k \in Keys(snap)
             THEN [i \in 1..Len(UpdatedMap(d)[k]) |->
                      wrapping_add(SnapMap(snap)[k][i], UpdatedMap(d)[k][i])]
             ELSE UpdatedMap(d)[k]
        ELSE SnapMap(snap)[k]]

\* C8: read_with_delta warns UnknownDelete exactly when the delta deletes a
\* key that `from` does not hold, and does not fail for it: without a size
\* mismatch it returns Ok with every kept item carried forward and every
\* update applied (the snaps of the model stay far below the size cap).
C8_UnknownDeleteOnlyWarns ==
    call.op = "read_with_delta"
        => /\ warn = IF delta.deleted_items \subseteq Keys(from)
                     THEN <<>> ELSE <<"UnknownDelete">>
           /\ ~SizeMismatch(from, delta)
                => (ret = "Ok" /\ SnapMap(target) = Applied(from, delta))

\* A delta that deletes a key `from` lacks, leaves an item of `from` in place
\* and carries an update has been applied with the warning and Ok.
C8_Witness ==
    /\ call.op = "read_with_delta" /\ ret = "Ok"
    /\ warn = <<"UnknownDelete">>
    /\ delta.deleted_items \ Keys(from) # {}
    /\ Keys(from) \ delta.deleted_items # {}
    /\ DOMAIN delta.updated_items # {}
    /\ Keys(target) # {}

\* C2: a snap built through add_item, written by Snap::write and read by
\* SnapReader::read comes back with Ok, as the same mapping from key to
\* data, and the reader consumes the whole input.
C2_SnapRoundTrip ==
    (call.op = "SnapReader::read" /\ call.src = "wire")
        => /\ call.ints = Snap_write(from)
           /\ ret = "Ok"
           /\ SnapMap(target) = SnapMap(from)
           /\ call.left = 0

\* A snap with an empty item under a key whose type_id is >= 0x8000 and a
\* second item with data has made the round trip.
C2_Witness ==
    /\ call.op = "SnapReader::read" /\ call.src = "wire" /\ ret = "Ok"
    /\ key(32768, 2) \in Keys(from) /\ SnapMap(target)[key(32768, 2)] = <<>>
    /\ key(1, 1) \in Keys(from) /\ SnapMap(target)[key(1, 1)] = <<5, -3>>
    /\ from.offsets[key(32768, 2)].start = 0

\* The header of the stream and the num_items ints after it all decode.
TableDecodes(c) ==
    /\ Len(c.ints) >= 2
    /\ Len(c.ints) >= 2 + c.ints[2]
    /\ c.bad = 0 \/ c.bad > 2 + c.ints[2]

\* The offsets table of the stream, and the item sizes derived from it.
Table(c) == SubSeq(c.ints, 3, 2 + c.ints[2])
DerivedSizes(c) ==
    [i \in 1..Len(Table(c)) |->
        IF i < Len(Table(c)) THEN Table(c)[i + 1] - Table(c)[i]
        ELSE c.ints[1] - Table(c)[i]]

\* The table does not start at 0, or decreases, or ends beyond data_size.
BadTable(c) ==
    /\ Table(c) # <<>>
    /\ \/ Table(c)[1] # 0
       \/ \E i \in 1..(Len(Table(c)) - 1) : Table(c)[i + 1] < Table(c)[i]
       \/ Table(c)[Len(Table(c))] > c.ints[1]

\* C9: SnapReader::read returns Err(InvalidOffset) for a stream whose header
\* and offsets decode and whose table does not start at 0, decreases or ends
\* beyond data_size, having read no int after the table and without having
\* recycled the passed-in snap, which it leaves as it was; and it never
\* returns Ok for a stream with a derived size that is 0 or no multiple of 4.
C9_InvalidOffset ==
    [][(call'.op = "SnapReader::read" /\ TableDecodes(call'))
        => /\ BadTable(call')
                => /\ ret' = "InvalidOffset"
                   /\ ~call'.recycled
                   /\ call'.left >= Len(call'.ints) - 2 - call'.ints[2]
                   /\ target' = target
           /\ (\E i \in DOMAIN DerivedSizes(call') :
                    DerivedSizes(call')[i] = 0 \/ DerivedSizes(call')[i] % 4 # 0)
                => ret' # "Ok"]_vars

\* The stream with the offsets 0, 8, 4 has been refused with InvalidOffset
\* while the passed-in snap held an item, which it still holds.
C9_Witness ==
    /\ call.op = "SnapReader::read" /\ call.src = "net"
    /\ TableDecodes(call) /\ Table(call) = <<0, 8, 4>>
    /\ ret = "InvalidOffset" /\ ~call.recycled
    /\ Keys(target) # {}

\* The ints of the offsets table that decode before the input ends or an int
\* fails to decode.
TablePrefix(c) ==
    SubSeq(c.ints, 3, IF c.bad > 2 THEN c.bad - 1 ELSE Len(c.ints))

\* C10 (as claimed): when the header decodes and the input ends, or an int
\* fails to decode, inside the offsets table (the offsets before that point
\* being in order), SnapReader::read returns Err(OffsetsUnpacking).
C10_OffsetsUnpackingIsReturned ==
    (/\ call.op = "SnapReader::read"
     /\ Len(call.ints) >= 2 /\ call.bad \notin {1, 2}
     /\ Len(TablePrefix(call)) < call.ints[2]
     /\ TablePrefix(call) # <<>> => TablePrefix(call)[1] = 0
     /\ \A i \in 1..(Len(TablePrefix(call)) - 1) :
            TablePrefix(call)[i] <= TablePrefix(call)[i + 1])
        => ret = "OffsetsUnpacking"

\* The written snap w taken apart: the offsets table, and for the i-th item
\* the position of its key word in w.
WrittenOffsets(w) == SubSeq(w, 3, 2 + w[2])
WrittenKeyPos(w, i) == 2 + w[2] + (WrittenOffsets(w)[i] \div 4) + 1
WrittenKey(w, i) == w[WrittenKeyPos(w, i)]

\* Key a comes before key b as unsigned 32-bit numbers: by type_id, then id.
KeyBefore(a, b) ==
    \/ key_to_type_id(a) < key_to_type_id(b)
    \/ key_to_type_id(a) = key_to_type_id(b) /\ key_to_id(a) < key_to_id(b)

\* C11: Snap::write emits data_size = (data words + items) * 4, num_items,
\* one offset per item in ascending unsigned key order (the first 0, each
\* next the previous plus (words of the previous item + 1) * 4), then in the
\* same order each item's key followed by its data words, and nothing else.
C11_WriteLayout ==
    call.op = "Snap::write"
        => LET n == Cardinality(Keys(from))
               m == SnapMap(from)
               offs == WrittenOffsets(wire)
           IN  /\ Len(wire) >= 2
               /\ wire[1] = (Len(from.buf) + n) * 4
               /\ wire[2] = n
               /\ Len(wire) = 2 + n + (wire[1] \div 4)
               /\ n > 0 => offs[1] = 0
               /\ {WrittenKey(wire, i) : i \in 1..n} = Keys(from)
               /\ \A i \in 1..n :
                    LET k == WrittenKey(wire, i) IN
                    /\ SubSeq(wire, WrittenKeyPos(wire, i) + 1,
                              WrittenKeyPos(wire, i) + Len(m[k])) = m[k]
                    /\ i < n => /\ offs[i + 1] = offs[i] + (Len(m[k]) + 1) * 4
                                /\ KeyBefore(k, WrittenKey(wire, i + 1))

\* A snap whose item with type_id 0x8000 was added first has been written:
\* its key comes second on the wire although its data comes first in buf.
C11_Witness ==
    /\ call.op = "Snap::write"
    /\ Keys(from) = {key(1, 1), key(32768, 2)}
    /\ from.offsets[key(32768, 2)].start = 0
    /\ Len(SnapMap(from)[key(32768, 2)]) = 2
    /\ Len(SnapMap(from)[key(1, 1)]) = 1
    /\ wire[2] = 2 /\ wire[4] = 8 /\ wire[5] = key(1, 1)

\* ceil(len / MAX_SNAPSHOT_PACKSIZE): the least count of packets that hold len
\* bytes.
PartsFor(len) ==
    CHOOSE n \in 0..len : /\ n * MAX_SNAPSHOT_PACKSIZE >= len
                          /\ n > 0 => (n - 1) * MAX_SNAPSHOT_PACKSIZE < len

\* What the iterator over data has to yield, as kind, part and data of each
\* message (part -1: the message has no part field).
ExpectedChunks(data) ==
    IF data = <<>> THEN <<[kind |-> "SnapEmpty", part |-> -1, data |-> <<>>]>>
    ELSE IF Len(data) <= MAX_SNAPSHOT_PACKSIZE
    THEN <<[kind |-> "SnapSingle", part |-> -1, data |-> data]>>
    ELSE [i \in 1..PartsFor(Len(data)) |->
            [kind |-> "Snap", part |-> i - 1,
             data |-> [j \in 1..(IF i < PartsFor(Len(data))
                                 THEN MAX_SNAPSHOT_PACKSIZE
                                 ELSE Len(data) - (i - 1) * MAX_SNAPSHOT_PACKSIZE) |->
                          data[(i - 1) * MAX_SNAPSHOT_PACKSIZE + j]]]]

\* Kind, part and data of a yielded message.
ChunkOf(msg) ==
    [kind |-> msg.kind,
     part |-> IF msg.kind = "Snap" THEN msg.part ELSE -1,
     data |-> IF msg.kind = "SnapEmpty" THEN <<>> ELSE msg.data]

RECURSIVE ConcatData(_)
ConcatData(msgs) ==
    IF msgs = <<>> THEN <<>>
    ELSE ChunkOf(Head(msgs)).data \o ConcatData(Tail(msgs))

\* The messages yielded so far are the first ones of what is expected.
YieldedIsPrefix ==
    /\ Len(yielded) <= Len(ExpectedChunks(call.data))
    /\ \A i \in 1..Len(yielded) :
        /\ ChunkOf(yielded[i]) = ExpectedChunks(call.data)[i]
        /\ Len(ChunkOf(yielded[i]).data) <= MAX_SNAPSHOT_PACKSIZE
        /\ yielded[i].kind = "Snap"
            => yielded[i].num_parts = PartsFor(Len(call.data))

\* C12: the iterator of delta_chunks yields one SnapEmpty for empty data, one
\* SnapSingle with all of data up to MAX_SNAPSHOT_PACKSIZE bytes, otherwise
\* ceil(len / MAX_SNAPSHOT_PACKSIZE) Snap messages with part = 0, 1, ... of at
\* most MAX_SNAPSHOT_PACKSIZE bytes each; it yields them all before its first
\* None, their data concatenated is the input, and after a None it returns
\* None forever.
C12_Chunking ==
    /\ [](chunks.some
            => /\ YieldedIsPrefix
               /\ ret = "None"
                    => /\ Len(yielded) = Len(ExpectedChunks(call.data))
                       /\ ConcatData(yielded) = call.data)
    /\ [][(chunks.some /\ call'.op = "DeltaChunks::next")
            => /\ ret = "None" => (ret' = "None" /\ yielded' = yielded)
               /\ Len(yielded) = Len(ExpectedChunks(call.data)) => ret' = "None"
               /\ Len(yielded) < Len(ExpectedChunks(call.data)) => ret' = "Some"]_vars

\* 1801 bytes have been yielded as three Snap messages, the last of one byte,
\* and next() has then returned None.
C12_Witness ==
    /\ chunks.some /\ call.op = "DeltaChunks::next" /\ ret = "None"
    /\ Len(call.data) = 2 * MAX_SNAPSHOT_PACKSIZE + 1
    /\ Len(yielded) = 3
    /\ yielded[3].kind = "Snap" /\ yielded[3].part = 2 /\ Len(yielded[3].data) = 1
    /\ chunks.cur_part = chunks.num_parts

\* The wrapping sum of the data of the items of snap with the keys in S.
RECURSIVE ItemsSum(_, _)
ItemsSum(snap, S) ==
    IF S = {} THEN 0
    ELSE LET k == CHOOSE x \in S : TRUE IN
         wrapping_add(ItemsSum(snap, S \ {k}), WrappingSum(SnapMap(snap)[k]))

\* The number of words of the items of snap with the keys in S.
RECURSIVE ItemsLen(_, _)
ItemsLen(snap, S) ==
    IF S = {} THEN 0
    ELSE LET k == CHOOSE x \in S : TRUE IN
         ItemsLen(snap, S \ {k}) + (snap.offsets[k].end - snap.offsets[k].start)

\* The ranges of snap lie within buf, do not overlap and cover buf; hence
\* its crc is the sum of its items and its written data_size is the size of
\* the items region written.
WellFormed(snap) ==
    /\ \A k \in Keys(snap) :
        /\ 0 <= snap.offsets[k].start
        /\ snap.offsets[k].start <= snap.offsets[k].end
        /\ snap.offsets[k].end <= Len(snap.buf)
    /\ \A k1, k2 \in Keys(snap) :
        k1 # k2 => \/ snap.offsets[k1].end <= snap.offsets[k2].start
                   \/ snap.offsets[k2].end <= snap.offsets[k1].start
    /\ ItemsLen(snap, Keys(snap)) = Len(snap.buf)
    /\ Snap_crc(snap) = ItemsSum(snap, Keys(snap))
    /\ Snap_write(snap)[1]
         = 4 * (Len(Snap_write(snap)) - 2 - Cardinality(Keys(snap)))

\* C13: through add_item calls that succeed or fail, finish, recycle and
\* read_with_delta calls that return Ok, every snap keeps its ranges within
\* buf, pairwise apart and covering buf, so that crc() is the wrapping sum of
\* the item data and the data_size of Snap::write is the size of the items
\* region it writes.
C13_SnapWellFormed ==
    /\ WellFormed(builder)
    /\ WellFormed(from)
    /\ WellFormed(to)
    /\ (call.op = "read_with_delta" => ret = "Ok") => WellFormed(target)

\* read_with_delta has returned Ok with a target that holds an item carried
\* from `from` and patched in place and an item the delta brought.
C13_Witness ==
    /\ call.op = "read_with_delta" /\ ret = "Ok"
    /\ Keys(target) = {key(1, 1), key(32768, 2)}
    /\ key(1, 1) \in Keys(from) /\ key(32768, 2) \notin Keys(from)
    /\ key(1, 1) \in DOMAIN delta.updated_items
    /\ key(1, 1) \notin delta.deleted_items
    /\ Len(SnapMap(target)[key(1, 1)]) = 2
    /\ Len(SnapMap(target)[key(32768, 2)]) = 1

====
